---- MODULE Spec2Model ----
(***************************************************************************)
(* TCP chat server (src/tcp/chat/server/02-tcp-chat-server.go).            *)
(*                                                                         *)
(* One handleClient goroutine per accepted connection, one writePump       *)
(* goroutine per client, the registry newClients (a sync.Map), the atomic  *)
(* counter clientCounter, and one buffered channel msgChan per client.     *)
(* Each action is one statement (or one run of goroutine-local statements) *)
(* of the source; goroutines interleave between actions.                   *)
(***************************************************************************)
EXTENDS Integers, Sequences, FiniteSets, TLC

\* ------------------------------------------------------------- bounds
\* Connections the listener accepts in a run.
NumClients == 3
\* Chat lines a peer sends after its name line when goroutines interleave freely.
MaxLines == 1
\* Chat lines of the peer whose message order is followed.
MaxBurst == 3
\* Slots of a client's msgChan. The source allocates 100 (line 99); the model
\* is checked with a small channel so that a full channel is reached.
Capacity == 2

Clients == 1..NumClients
\* The nil *Client passed as "exclude" by the leave broadcasts.
Nil == 0

\* ------------------------------------------------------------- messages
Msg(t, a, b) == [t |-> t, a |-> a, b |-> b]
\* "欢迎来到聊天室！你的名字是：%s\n"
Welcome(c) == Msg("welcome", c, 0)
\* "当前在线人数：%d\n"
CountLine(n) == Msg("count", n, 0)
\* "系统消息：%s 加入了聊天室\n"
Joined(c) == Msg("join", c, 0)
\* "系统消息：%s 离开了聊天室\n"
Left(c) == Msg("left", c, 0)
\* "%s: %s\n" for the i-th non-blank line client c sent
Chat(c, i) == Msg("chat", c, i)

\* Largest value of "clientCounter int32"
MaxInt32 == 2147483647

\* atomic.AddInt32 on an int32: two's-complement wrap-around
Add32(x, d) ==
    IF d >= 0 /\ x > MaxInt32 - d THEN (x - MaxInt32 - 1) + (d - MaxInt32 - 1)
    ELSE IF d < 0 /\ x < (-MaxInt32 - 1) - d THEN (x + MaxInt32 + 1) + (d + MaxInt32 + 1)
    ELSE x + d

\* Faults of the channel send, each replacing TrySend: a send that grows the
\* buffer past its capacity, and a send that puts the message at the head.
TrySendUnbounded(q, m) == Append(q, m)
TrySendFront(q, m) == IF Len(q) < Capacity THEN <<m>> \o q ELSE q

\* select { case ch <- m: default: } on a buffered channel holding q
TrySend(q, m) == IF Len(q) < Capacity THEN Append(q, m) ELSE q

\* Fault of the callback's test: nobody is skipped.
ExcludedNever(client, exclude) == FALSE

\* The callback's test "client == exclude"
Excluded(client, exclude) == client = exclude

\* No broadcast in progress.
NoRange == [msg |-> Msg("none", 0, 0), excl |-> Nil, start |-> {}, done |-> {},
            cur |-> Nil, att |-> [k \in Clients |-> 0], ret |-> "none"]

VARIABLES
    pc,             \* pc[c]: where handleClient(conn c) stands
    quota,          \* quota[c]: non-blank chat lines peer c sends in this run
    stay,           \* peers that keep their connection open throughout this run
    sent,           \* sent[c]: non-blank chat lines read from c so far
    eof,            \* eof[c]: c's connection hit end-of-stream or an error while
                    \*         the name line was read
    clientCounter,  \* the int32 counter
    newClients,     \* keys of the sync.Map
    chanState,      \* chanState[c]: "nil", "open" or "closed"
    msgChan,        \* msgChan[c]: the channel's buffer, oldest first
    wp,             \* wp[c]: writePump of c: "none", "run" or "exit"
    werr,           \* werr[c]: c.writer (bufio.Writer) holds a write error
    bc,             \* bc[c]: the broadcast (Range) handleClient c is executing
    panicked,       \* a goroutine panicked: the process is gone
    nReg,           \* number of Store calls so far
    nRem,           \* number of Delete calls so far
    lastw,          \* history: lastw[r][s], the number of the chat line of s that
                    \*          writePump of r wrote last (0: none yet)
    blog,           \* history: blog[c], the sends of handleClient c during the
                    \*          join, chat message or leave it is executing
    took,           \* history: took[c], the first two messages writePump c
                    \*          received from the channel
    rd              \* one connection's bytes and the two bufio.Readers on it

\* The program and its peers.
prog == <<pc, quota, stay, sent, eof, clientCounter, newClients, chanState, msgChan,
          wp, werr, bc, panicked, nReg, nRem>>
\* The histories, kept by the specifications whose claims read them.
hist == <<lastw, blog, took>>
\* What the specifications of goroutine interleavings leave alone.
idle == <<hist, rd>>
vars == <<prog, hist, rd>>

\* No byte-level connection is followed.
NoWire == [net |-> <<>>, buf |-> <<>>, pc |-> "none", name |-> <<>>, casts |-> <<>>,
           all |-> <<>>]

InitProg ==
    /\ pc = [c \in Clients |-> "none"]
    /\ sent = [c \in Clients |-> 0]
    /\ eof = [c \in Clients |-> FALSE]
    /\ clientCounter = 0
    /\ newClients = {}
    /\ chanState = [c \in Clients |-> "nil"]
    /\ msgChan = [c \in Clients |-> <<>>]
    /\ wp = [c \in Clients |-> "none"]
    /\ werr = [c \in Clients |-> FALSE]
    /\ bc = [c \in Clients |-> NoRange]
    /\ panicked = FALSE
    /\ nReg = 0
    /\ nRem = 0
    /\ lastw = [r \in Clients |-> [s \in Clients |-> 0]]
    /\ blog = [c \in Clients |-> <<>>]
    /\ took = [c \in Clients |-> <<>>]

At(c, l) == ~panicked /\ pc[c] = l

\* ------------------------------------------------------------- main
\* listener.Accept(); go handleClient(conn): connections are accepted in order.
Accept(c) ==
    /\ At(c, "none")
    /\ quota[c] >= 0
    /\ \A d \in Clients : d < c => pc[d] # "none"
    /\ pc' = [pc EXCEPT ![c] = "name"]
    /\ UNCHANGED <<quota, stay, sent, eof, clientCounter, newClients, chanState,
                   msgChan, wp, werr, bc, panicked, nReg, nRem>>

\* ------------------------------------------------------------- handleClient
\* name, _ := reader.ReadString('\n') returns a whole line
ReadName(c) ==
    /\ At(c, "name")
    /\ pc' = [pc EXCEPT ![c] = "inc"]
    /\ UNCHANGED <<quota, stay, sent, eof, clientCounter, newClients, chanState,
                   msgChan, wp, werr, bc, panicked, nReg, nRem>>

\* name, _ := reader.ReadString('\n') returns an error, which is dropped
ReadNameFail(c) ==
    /\ At(c, "name")
    /\ c \notin stay
    /\ eof' = [eof EXCEPT ![c] = TRUE]
    /\ pc' = [pc EXCEPT ![c] = "inc"]
    /\ UNCHANGED <<quota, stay, sent, clientCounter, newClients, chanState,
                   msgChan, wp, werr, bc, panicked, nReg, nRem>>

\* Fault of the join: the counter is not incremented.
IncNone(c) ==
    /\ At(c, "inc")
    /\ pc' = [pc EXCEPT ![c] = "setup"]
    /\ UNCHANGED <<quota, stay, sent, eof, clientCounter, newClients, chanState,
                   msgChan, wp, werr, bc, panicked, nReg, nRem>>

\* atomic.AddInt32(&clientCounter, 1)
Inc(c) ==
    /\ At(c, "inc")
    /\ clientCounter' = Add32(clientCounter, 1)
    /\ pc' = [pc EXCEPT ![c] = "setup"]
    /\ UNCHANGED <<quota, stay, sent, eof, newClients, chanState,
                   msgChan, wp, werr, bc, panicked, nReg, nRem>>

\* Fault of the join: the client is stored in the map as soon as it is
\* constructed, before its count line is sent.
SetupStored(c) ==
    /\ At(c, "setup")
    /\ chanState' = [chanState EXCEPT ![c] = "open"]
    /\ wp' = [wp EXCEPT ![c] = "run"]
    /\ msgChan' = [msgChan EXCEPT ![c] = TrySend(<<>>, Welcome(c))]
    /\ newClients' = newClients \cup {c}
    /\ pc' = [pc EXCEPT ![c] = "count"]
    /\ UNCHANGED <<quota, stay, sent, eof, clientCounter,
                   werr, bc, panicked, nReg, nRem>>

\* client := &Client{...}; go client.writePump(); client.sendMessage(welcome)
Setup(c) ==
    /\ At(c, "setup")
    /\ chanState' = [chanState EXCEPT ![c] = "open"]
    /\ wp' = [wp EXCEPT ![c] = "run"]
    /\ msgChan' = [msgChan EXCEPT ![c] = TrySend(<<>>, Welcome(c))]
    /\ pc' = [pc EXCEPT ![c] = "count"]
    /\ UNCHANGED <<quota, stay, sent, eof, clientCounter, newClients,
                   werr, bc, panicked, nReg, nRem>>

\* client.sendMessage(fmt.Sprintf("当前在线人数：%d\n", clientCounter))
SendCount(c) ==
    /\ At(c, "count")
    /\ msgChan' = [msgChan EXCEPT ![c] = TrySend(@, CountLine(clientCounter))]
    /\ pc' = [pc EXCEPT ![c] = "store"]
    /\ UNCHANGED <<quota, stay, sent, eof, clientCounter, newClients, chanState,
                   wp, werr, bc, panicked, nReg, nRem>>

\* newClients.Store(client, true)
Store(c) ==
    /\ At(c, "store")
    /\ newClients' = newClients \cup {c}
    /\ nReg' = nReg + 1
    /\ pc' = [pc EXCEPT ![c] = "join"]
    /\ UNCHANGED <<quota, stay, sent, eof, clientCounter, chanState,
                   msgChan, wp, werr, bc, panicked, nRem>>

\* A call broadcast(m, exclude) made at label l: newClients.Range begins.
Call(c, l, m, exclude, ret) ==
    /\ At(c, l)
    /\ bc' = [bc EXCEPT ![c] = [msg |-> m, excl |-> exclude, start |-> newClients,
                                done |-> {}, cur |-> Nil,
                                att |-> [k \in Clients |-> 0], ret |-> ret]]
    /\ pc' = [pc EXCEPT ![c] = "range"]
    /\ UNCHANGED <<quota, stay, sent, eof, clientCounter, newClients, chanState,
                   msgChan, wp, werr, panicked, nReg, nRem>>

\* Fault of the join: the join line is broadcast with no client excluded.
BroadcastJoinAll(c) == Call(c, "join", Joined(c), Nil, "joincount")

\* broadcast("系统消息：%s 加入了聊天室\n", client)
BroadcastJoin(c) == Call(c, "join", Joined(c), c, "joincount")

\* broadcast("当前在线人数：%d\n", client)
BroadcastJoinCount(c) == Call(c, "joincount", CountLine(clientCounter), c, "read")

\* message, err := reader.ReadString('\n') with err != nil: return, so the
\* deferred function runs
ReadError(c) ==
    /\ At(c, "read")
    /\ c \notin stay
    /\ pc' = [pc EXCEPT ![c] = "dec"]
    /\ UNCHANGED <<quota, stay, sent, eof, clientCounter, newClients, chanState,
                   msgChan, wp, werr, bc, panicked, nReg, nRem>>

\* ReadString returned a line that is empty after TrimSpace: continue
ReadBlank(c) ==
    /\ At(c, "read")
    /\ ~eof[c]
    /\ UNCHANGED prog

\* ReadString returned a line that is not empty after TrimSpace
ReadLine(c) ==
    /\ At(c, "read")
    /\ ~eof[c]
    /\ sent[c] < quota[c]
    /\ sent' = [sent EXCEPT ![c] = @ + 1]
    /\ pc' = [pc EXCEPT ![c] = "chat"]
    /\ UNCHANGED <<quota, stay, eof, clientCounter, newClients, chanState,
                   msgChan, wp, werr, bc, panicked, nReg, nRem>>

\* broadcast(fmt.Sprintf("%s: %s\n", client.name, message), client)
BroadcastChat(c) == Call(c, "chat", Chat(c, sent[c]), c, "read")

\* Fault of the deferred function: the counter is not decremented.
DecNone(c) ==
    /\ At(c, "dec")
    /\ pc' = [pc EXCEPT ![c] = "delete"]
    /\ UNCHANGED <<quota, stay, sent, eof, clientCounter, newClients, chanState,
                   msgChan, wp, werr, bc, panicked, nReg, nRem>>

\* deferred: atomic.AddInt32(&clientCounter, -1)
Dec(c) ==
    /\ At(c, "dec")
    /\ clientCounter' = Add32(clientCounter, -1)
    /\ pc' = [pc EXCEPT ![c] = "delete"]
    /\ UNCHANGED <<quota, stay, sent, eof, newClients, chanState,
                   msgChan, wp, werr, bc, panicked, nReg, nRem>>

\* Fault of the deferred function: the client is not deleted from the map.
DeleteNone(c) ==
    /\ At(c, "delete")
    /\ pc' = [pc EXCEPT ![c] = "close"]
    /\ UNCHANGED <<quota, stay, sent, eof, clientCounter, newClients, chanState,
                   msgChan, wp, werr, bc, panicked, nReg, nRem>>

\* deferred: newClients.Delete(client)
Delete(c) ==
    /\ At(c, "delete")
    /\ newClients' = newClients \ {c}
    /\ nRem' = nRem + 1
    /\ pc' = [pc EXCEPT ![c] = "close"]
    /\ UNCHANGED <<quota, stay, sent, eof, clientCounter, chanState,
                   msgChan, wp, werr, bc, panicked, nReg>>

\* deferred: close(client.msgChan)
Close(c) ==
    /\ At(c, "close")
    /\ chanState' = [chanState EXCEPT ![c] = "closed"]
    /\ pc' = [pc EXCEPT ![c] = "left"]
    /\ UNCHANGED <<quota, stay, sent, eof, clientCounter, newClients,
                   msgChan, wp, werr, bc, panicked, nReg, nRem>>

\* deferred: broadcast("系统消息：%s 离开了聊天室\n", nil)
BroadcastLeft(c) == Call(c, "left", Left(c), Nil, "leftcount")

\* Fault of the leave: the count line shows the counter before the decrement.
BroadcastLeftCountStale(c) ==
    Call(c, "leftcount", CountLine(Add32(clientCounter, 1)), Nil, "done")

\* deferred: broadcast("当前在线人数：%d\n", nil)
BroadcastLeftCount(c) == Call(c, "leftcount", CountLine(clientCounter), Nil, "done")

\* ------------------------------------------------------------- broadcast
\* Range hands the callback a key it has not visited in this call and that is
\* in the map when it is loaded (a key stored after Range began may or may not
\* be visited). The callback returns at once for the excluded client.
RangeLoad(c, k) ==
    /\ At(c, "range")
    /\ bc[c].cur = Nil
    /\ k \in newClients \ bc[c].done
    /\ bc' = [bc EXCEPT ![c] = IF Excluded(k, bc[c].excl)
                               THEN [@ EXCEPT !.done = @ \cup {k}]
                               ELSE [@ EXCEPT !.cur = k]]
    /\ UNCHANGED <<pc, quota, stay, sent, eof, clientCounter, newClients, chanState,
                   msgChan, wp, werr, panicked, nReg, nRem>>

\* Fault of the send: a plain "client.msgChan <- message", which waits for room.
RangeSendBlocking(c) ==
    /\ At(c, "range")
    /\ bc[c].cur # Nil
    /\ LET k == bc[c].cur
       IN  /\ chanState[k] = "closed" \/ Len(msgChan[k]) < Capacity
           /\ bc' = [bc EXCEPT ![c].cur = Nil, ![c].done = @ \cup {k},
                               ![c].att[k] = @ + 1]
           /\ IF chanState[k] = "closed"
              THEN panicked' = TRUE /\ UNCHANGED msgChan
              ELSE msgChan' = [msgChan EXCEPT ![k] = Append(@, bc[c].msg)]
                   /\ UNCHANGED panicked
    /\ UNCHANGED <<pc, quota, stay, sent, eof, clientCounter, newClients, chanState,
                   wp, werr, nReg, nRem>>

\* select { case client.msgChan <- message: default: } on the loaded client;
\* a send on a closed channel panics.
RangeSend(c) ==
    /\ At(c, "range")
    /\ bc[c].cur # Nil
    /\ LET k == bc[c].cur
       IN  /\ bc' = [bc EXCEPT ![c].cur = Nil, ![c].done = @ \cup {k},
                               ![c].att[k] = @ + 1]
           /\ IF chanState[k] = "closed"
              THEN panicked' = TRUE /\ UNCHANGED msgChan
              ELSE msgChan' = [msgChan EXCEPT ![k] = TrySend(@, bc[c].msg)]
                   /\ UNCHANGED panicked
    /\ UNCHANGED <<pc, quota, stay, sent, eof, clientCounter, newClients, chanState,
                   wp, werr, nReg, nRem>>

\* Range returns once every key that was in the map when it began and is
\* still there has been visited.
RangeEnd(c) ==
    /\ At(c, "range")
    /\ bc[c].cur = Nil
    /\ (bc[c].start \cap newClients) \subseteq bc[c].done
    /\ pc' = [pc EXCEPT ![c] = bc[c].ret]
    /\ bc' = [bc EXCEPT ![c] = NoRange]
    /\ UNCHANGED <<quota, stay, sent, eof, clientCounter, newClients, chanState,
                   msgChan, wp, werr, panicked, nReg, nRem>>

\* ------------------------------------------------------------- writePump
\* for msg := range c.msgChan { c.writer.WriteString(msg); c.writer.Flush() }
\* The write reaches the connection unless c.writer holds an error.
WriterWrite(c) ==
    /\ ~panicked
    /\ wp[c] = "run"
    /\ msgChan[c] # <<>>
    /\ msgChan' = [msgChan EXCEPT ![c] = Tail(@)]
    /\ UNCHANGED <<pc, quota, stay, sent, eof, clientCounter, newClients, chanState,
                   wp, werr, bc, panicked, nReg, nRem>>

\* for msg := range c.msgChan { ... } with WriteString or Flush returning an
\* error for the first time: the error is not looked at, the loop goes on, and
\* c.writer keeps the error, so that no later write reaches the connection.
WriterWriteFail(c) ==
    /\ ~panicked
    /\ wp[c] = "run"
    /\ c \notin stay
    /\ ~werr[c]
    /\ msgChan[c] # <<>>
    /\ msgChan' = [msgChan EXCEPT ![c] = Tail(@)]
    /\ werr' = [werr EXCEPT ![c] = TRUE]
    /\ UNCHANGED <<pc, quota, stay, sent, eof, clientCounter, newClients, chanState,
                   wp, bc, panicked, nReg, nRem>>

\* Fault of the writePump: it returns when it finds the channel empty.
WriterExitEarly(c) ==
    /\ ~panicked
    /\ wp[c] = "run"
    /\ msgChan[c] = <<>>
    /\ wp' = [wp EXCEPT ![c] = "exit"]
    /\ UNCHANGED <<pc, quota, stay, sent, eof, clientCounter, newClients, chanState,
                   msgChan, werr, bc, panicked, nReg, nRem>>

\* Fault of the writePump: it returns as soon as the channel is closed,
\* leaving the messages still in it.
WriterExitUndrained(c) ==
    /\ ~panicked
    /\ wp[c] = "run"
    /\ chanState[c] = "closed"
    /\ wp' = [wp EXCEPT ![c] = "exit"]
    /\ UNCHANGED <<pc, quota, stay, sent, eof, clientCounter, newClients, chanState,
                   msgChan, werr, bc, panicked, nReg, nRem>>

\* The channel is closed and drained: the loop ends, defer c.conn.Close()
WriterExit(c) ==
    /\ ~panicked
    /\ wp[c] = "run"
    /\ chanState[c] = "closed"
    /\ msgChan[c] = <<>>
    /\ wp' = [wp EXCEPT ![c] = "exit"]
    /\ UNCHANGED <<pc, quota, stay, sent, eof, clientCounter, newClients, chanState,
                   msgChan, werr, bc, panicked, nReg, nRem>>

\* ------------------------------------------------------------- Spec
\* Two connections, each peer sends its name and up to MaxLines chat lines and
\* may disconnect at any time; goroutines interleave freely.
Init ==
    /\ InitProg
    /\ quota = [c \in Clients |-> IF c <= 2 THEN MaxLines ELSE -1]
    /\ stay = {}
    /\ rd = NoWire

Next ==
    \/ \E c \in Clients : Accept(c) /\ UNCHANGED idle
    \/ \E c \in Clients : ReadName(c) /\ UNCHANGED idle
    \/ \E c \in Clients : Inc(c) /\ UNCHANGED idle
    \/ \E c \in Clients : Setup(c) /\ UNCHANGED idle
    \/ \E c \in Clients : SendCount(c) /\ UNCHANGED idle
    \/ \E c \in Clients : Store(c) /\ UNCHANGED idle
    \/ \E c \in Clients : BroadcastJoin(c) /\ UNCHANGED idle
    \/ \E c \in Clients : BroadcastJoinCount(c) /\ UNCHANGED idle
    \/ \E c \in Clients : ReadError(c) /\ UNCHANGED idle
    \/ \E c \in Clients : ReadBlank(c) /\ UNCHANGED idle
    \/ \E c \in Clients : ReadLine(c) /\ UNCHANGED idle
    \/ \E c \in Clients : BroadcastChat(c) /\ UNCHANGED idle
    \/ \E c \in Clients : Dec(c) /\ UNCHANGED idle
    \/ \E c \in Clients : Delete(c) /\ UNCHANGED idle
    \/ \E c \in Clients : Close(c) /\ UNCHANGED idle
    \/ \E c \in Clients : BroadcastLeft(c) /\ UNCHANGED idle
    \/ \E c \in Clients : BroadcastLeftCount(c) /\ UNCHANGED idle
    \/ \E c \in Clients, k \in Clients : RangeLoad(c, k) /\ UNCHANGED idle
    \/ \E c \in Clients : RangeSend(c) /\ UNCHANGED idle
    \/ \E c \in Clients : RangeEnd(c) /\ UNCHANGED idle
    \/ \E c \in Clients : WriterWrite(c) /\ UNCHANGED idle
    \/ \E c \in Clients : WriterExit(c) /\ UNCHANGED idle

Spec == Init /\ [][Next]_vars

\* ------------------------------------------------------------- histories
\* sendMessage(welcome), the first send of a join, starts handleClient c's log.
SetupRec(c) ==
    /\ Setup(c)
    /\ blog' = [blog EXCEPT ![c] =
          <<[to |-> c, msg |-> Welcome(c), ok |-> msgChan'[c] # msgChan[c]]>>]
    /\ UNCHANGED <<lastw, took, rd>>

SendCountRec(c) ==
    /\ SendCount(c)
    /\ blog' = [blog EXCEPT ![c] =
          Append(@, [to |-> c, msg |-> CountLine(clientCounter),
                     ok |-> msgChan'[c] # msgChan[c]])]
    /\ UNCHANGED <<lastw, took, rd>>

\* The send of a broadcast, logged with its recipient and whether the message
\* went into the channel.
RangeSendRec(c) ==
    /\ RangeSend(c)
    /\ blog' = [blog EXCEPT ![c] =
          Append(@, [to |-> bc[c].cur, msg |-> bc[c].msg,
                     ok |-> msgChan'[bc[c].cur] # msgChan[bc[c].cur]])]
    /\ UNCHANGED <<lastw, took, rd>>

\* The log ends when the join, the chat message or the leave is over.
RangeEndRec(c) ==
    /\ RangeEnd(c)
    /\ blog' = [blog EXCEPT ![c] = IF pc'[c] \in {"joincount", "leftcount"}
                                   THEN @ ELSE <<>>]
    /\ UNCHANGED <<lastw, took, rd>>

\* The write, with the chat line written noted.
WriterWriteRec(c) ==
    /\ WriterWrite(c)
    /\ LET m == Head(msgChan[c])
       IN  lastw' = IF m.t = "chat" /\ ~werr[c]
                    THEN [lastw EXCEPT ![c][m.a] = m.b] ELSE lastw
    /\ UNCHANGED <<blog, took, rd>>

\* The write, with the message noted if it is the writePump's first or second.
WriterWriteTook(c) ==
    /\ WriterWrite(c)
    /\ took' = [took EXCEPT ![c] = IF Len(@) < 2 THEN Append(@, Head(msgChan[c]))
                                  ELSE @]
    /\ UNCHANGED <<lastw, blog, rd>>

\* ------------------------------------------------------------- Spec3, SpecL
\* Three clients are registered and blocked in ReadString, and their writers
\* have drained the channels: the state after three joins.
Active3(q, st) ==
    /\ pc = [c \in Clients |-> IF c <= 3 THEN "read" ELSE "none"]
    /\ quota = [c \in Clients |-> IF c <= 3 THEN q[c] ELSE -1]
    /\ stay = st
    /\ sent = [c \in Clients |-> 0]
    /\ eof = [c \in Clients |-> FALSE]
    /\ clientCounter = 3
    /\ newClients = {1, 2, 3}
    /\ chanState = [c \in Clients |-> IF c <= 3 THEN "open" ELSE "nil"]
    /\ msgChan = [c \in Clients |-> <<>>]
    /\ wp = [c \in Clients |-> IF c <= 3 THEN "run" ELSE "none"]
    /\ werr = [c \in Clients |-> FALSE]
    /\ bc = [c \in Clients |-> NoRange]
    /\ panicked = FALSE
    /\ nReg = 3
    /\ nRem = 0
    /\ lastw = [r \in Clients |-> [s \in Clients |-> 0]]
    /\ blog = [c \in Clients |-> <<>>]
    /\ took = [c \in Clients |-> <<>>]
    /\ rd = NoWire

\* Spec3: peer 1 sends MaxBurst lines, peer 2 one line, peer 3 none, and all
\* three stay connected.
Init3 == Active3(<<MaxBurst, 1, 0>>, {1, 2, 3})

\* SpecL: peers 1 and 2 send MaxLines lines each and stay, peer 3 sends none
\* and may disconnect at any time.
InitL == Active3(<<MaxLines, MaxLines, 0>>, {1, 2})

Next3 ==
    \/ \E c \in Clients : ReadBlank(c) /\ UNCHANGED idle
    \/ \E c \in Clients : ReadLine(c) /\ UNCHANGED idle
    \/ \E c \in Clients : BroadcastChat(c) /\ UNCHANGED idle
    \/ \E c \in Clients, k \in Clients : RangeLoad(c, k) /\ UNCHANGED idle
    \/ \E c \in Clients : RangeSend(c) /\ UNCHANGED idle
    \/ \E c \in Clients : RangeEnd(c) /\ UNCHANGED idle
    \/ \E c \in Clients : WriterWriteRec(c)

Spec3 == Init3 /\ [][Next3]_vars

NextL ==
    \/ \E c \in Clients : ReadError(c) /\ UNCHANGED idle
    \/ \E c \in Clients : ReadBlank(c) /\ UNCHANGED idle
    \/ \E c \in Clients : ReadLine(c) /\ UNCHANGED idle
    \/ \E c \in Clients : BroadcastChat(c) /\ UNCHANGED idle
    \/ \E c \in Clients : Dec(c) /\ UNCHANGED idle
    \/ \E c \in Clients : Delete(c) /\ UNCHANGED idle
    \/ \E c \in Clients : Close(c) /\ UNCHANGED idle
    \/ \E c \in Clients : BroadcastLeft(c) /\ UNCHANGED idle
    \/ \E c \in Clients : BroadcastLeftCount(c) /\ UNCHANGED idle
    \/ \E c \in Clients, k \in Clients : RangeLoad(c, k) /\ UNCHANGED idle
    \/ \E c \in Clients : RangeSend(c) /\ UNCHANGED idle
    \/ \E c \in Clients : RangeEnd(c) /\ UNCHANGED idle
    \/ \E c \in Clients : WriterWriteRec(c)
    \/ \E c \in Clients : WriterExit(c) /\ UNCHANGED idle

SpecL == InitL /\ [][NextL]_vars

\* ------------------------------------------------------------- WriteSpec
\* As SpecL, and a write to the connection of peer 3, the peer that may
\* disconnect, may fail.
NextW ==
    \/ NextL
    \/ \E c \in Clients : WriterWriteFail(c) /\ UNCHANGED idle

WriteSpec == InitL /\ [][NextW]_vars

\* ------------------------------------------------------------- SeqSpec
\* Joins, chat messages and leaves do not overlap: a peer connects, and a
\* connection's input (its name line, a chat line, its end) is read, only
\* while every handleClient is blocked waiting for input or has returned, and
\* a peer connects only after the peers before it sent their names. Writers
\* run at any time. Three peers connect; peer 3 sends MaxLines chat lines, and
\* peers 2 and 3 may disconnect.
Blocked == \A d \in Clients : pc[d] \in {"none", "name", "read", "done"}

InitSeq ==
    /\ InitProg
    /\ quota = [c \in Clients |-> IF c = 3 THEN MaxLines ELSE IF c <= 2 THEN 0 ELSE -1]
    /\ stay = {1}
    /\ rd = NoWire

NextSeq ==
    \/ \E c \in Clients : Blocked /\ (\A d \in Clients : pc[d] # "name") /\ Accept(c)
                            /\ UNCHANGED idle
    \/ \E c \in Clients : Blocked /\ ReadName(c) /\ UNCHANGED idle
    \/ \E c \in Clients : Inc(c) /\ UNCHANGED idle
    \/ \E c \in Clients : SetupRec(c)
    \/ \E c \in Clients : SendCountRec(c)
    \/ \E c \in Clients : Store(c) /\ UNCHANGED idle
    \/ \E c \in Clients : BroadcastJoin(c) /\ UNCHANGED idle
    \/ \E c \in Clients : BroadcastJoinCount(c) /\ UNCHANGED idle
    \/ \E c \in Clients : Blocked /\ ReadError(c) /\ UNCHANGED idle
    \/ \E c \in Clients : Blocked /\ ReadBlank(c) /\ UNCHANGED idle
    \/ \E c \in Clients : Blocked /\ ReadLine(c) /\ UNCHANGED idle
    \/ \E c \in Clients : BroadcastChat(c) /\ UNCHANGED idle
    \/ \E c \in Clients : Dec(c) /\ UNCHANGED idle
    \/ \E c \in Clients : Delete(c) /\ UNCHANGED idle
    \/ \E c \in Clients : Close(c) /\ UNCHANGED idle
    \/ \E c \in Clients : BroadcastLeft(c) /\ UNCHANGED idle
    \/ \E c \in Clients : BroadcastLeftCount(c) /\ UNCHANGED idle
    \/ \E c \in Clients, k \in Clients : RangeLoad(c, k) /\ UNCHANGED idle
    \/ \E c \in Clients : RangeSendRec(c)
    \/ \E c \in Clients : RangeEndRec(c)
    \/ \E c \in Clients : WriterWrite(c) /\ UNCHANGED idle
    \/ \E c \in Clients : WriterExit(c) /\ UNCHANGED idle

SeqSpec == InitSeq /\ [][NextSeq]_vars

\* ------------------------------------------------------------- FaultSpec
\* As Spec, and a peer may also disconnect before its name line is complete;
\* only peer 1 sends chat lines.
InitFault ==
    /\ InitProg
    /\ quota = [c \in Clients |-> IF c = 1 THEN MaxLines ELSE IF c = 2 THEN 0 ELSE -1]
    /\ stay = {}
    /\ rd = NoWire

NextFault ==
    \/ Next
    \/ \E c \in Clients : ReadNameFail(c) /\ UNCHANGED idle

FaultSpec == InitFault /\ [][NextFault]_vars

\* ------------------------------------------------------------- FirstSpec
\* As Spec with peer 1 alone sending chat lines; the two lines a handleClient
\* sends to its own client stay in its log, and the first two messages of
\* every writePump are noted.
NextFirst ==
    \/ \E c \in Clients : Accept(c) /\ UNCHANGED idle
    \/ \E c \in Clients : ReadName(c) /\ UNCHANGED idle
    \/ \E c \in Clients : Inc(c) /\ UNCHANGED idle
    \/ \E c \in Clients : SetupRec(c)
    \/ \E c \in Clients : SendCountRec(c)
    \/ \E c \in Clients : Store(c) /\ UNCHANGED idle
    \/ \E c \in Clients : BroadcastJoin(c) /\ UNCHANGED idle
    \/ \E c \in Clients : BroadcastJoinCount(c) /\ UNCHANGED idle
    \/ \E c \in Clients : ReadError(c) /\ UNCHANGED idle
    \/ \E c \in Clients : ReadBlank(c) /\ UNCHANGED idle
    \/ \E c \in Clients : ReadLine(c) /\ UNCHANGED idle
    \/ \E c \in Clients : BroadcastChat(c) /\ UNCHANGED idle
    \/ \E c \in Clients : Dec(c) /\ UNCHANGED idle
    \/ \E c \in Clients : Delete(c) /\ UNCHANGED idle
    \/ \E c \in Clients : Close(c) /\ UNCHANGED idle
    \/ \E c \in Clients : BroadcastLeft(c) /\ UNCHANGED idle
    \/ \E c \in Clients : BroadcastLeftCount(c) /\ UNCHANGED idle
    \/ \E c \in Clients, k \in Clients : RangeLoad(c, k) /\ UNCHANGED idle
    \/ \E c \in Clients : RangeSend(c) /\ UNCHANGED idle
    \/ \E c \in Clients : RangeEnd(c) /\ UNCHANGED idle
    \/ \E c \in Clients : WriterWriteTook(c)
    \/ \E c \in Clients : WriterExit(c) /\ UNCHANGED idle

FirstSpec == InitFault /\ [][NextFirst]_vars

\* ------------------------------------------------------------- ReaderSpec
\* One connection at the level of bytes. The peer's bytes reach the server in
\* chunks, one chunk per conn.Read, and the stream ends after the last chunk.
\* handleClient reads the name line with one bufio.Reader and the chat lines
\* with a second bufio.Reader on the same connection.
MaxChunks == 2
MaxChunkLen == 4
Chars == {"a", " ", "\n"}
Space == {" ", "\n"}

Strings(n) == UNION {[1..k -> Chars] : k \in 0..n}
ChunkSeqs == UNION {[1..k -> Strings(MaxChunkLen) \ {<<>>}] : k \in 0..MaxChunks}

RECURSIVE Flatten(_)
Flatten(chunks) == IF chunks = <<>> THEN <<>> ELSE Head(chunks) \o Flatten(Tail(chunks))

\* Fault of the read loop: the line is used as it was read.
TrimNone(str) == str

\* strings.TrimSpace
RECURSIVE TrimLeft(_)
TrimLeft(str) == IF str # <<>> /\ Head(str) \in Space THEN TrimLeft(Tail(str)) ELSE str
RECURSIVE TrimRight(_)
TrimRight(str) ==
    IF str # <<>> /\ str[Len(str)] \in Space THEN TrimRight(SubSeq(str, 1, Len(str) - 1))
    ELSE str
TrimSpace(str) == TrimRight(TrimLeft(str))

\* Index of the first '\n' of str, 0 if there is none.
NewlineAt(str) ==
    IF \E i \in 1..Len(str) : str[i] = "\n"
    THEN CHOOSE i \in 1..Len(str) : str[i] = "\n" /\ \A j \in 1..(i - 1) : str[j] # "\n"
    ELSE 0

\* bufio.Reader.ReadString('\n') on a reader holding buf, with net still to
\* come from the connection: the bytes through the first '\n'; the reader
\* fills its buffer with one conn.Read at a time until it holds a '\n'; at
\* the end of the stream it returns what it holds, with an error.
RECURSIVE ReadString(_, _)
ReadString(buf, net) ==
    IF NewlineAt(buf) > 0
    THEN [line |-> SubSeq(buf, 1, NewlineAt(buf)), err |-> FALSE,
          buf |-> SubSeq(buf, NewlineAt(buf) + 1, Len(buf)), net |-> net]
    ELSE IF net = <<>>
    THEN [line |-> buf, err |-> TRUE, buf |-> <<>>, net |-> net]
    ELSE ReadString(buf \o Head(net), Tail(net))

InitReader ==
    /\ InitProg
    /\ quota = [c \in Clients |-> -1]
    /\ stay = {}
    /\ \E chunks \in ChunkSeqs :
          rd = [net |-> chunks, buf |-> <<>>, pc |-> "name", name |-> <<>>,
                casts |-> <<>>, all |-> Flatten(chunks)]

\* reader := bufio.NewReader(conn); name, _ := reader.ReadString('\n');
\* name: strings.TrimSpace(name); then reader = bufio.NewReader(conn): the
\* second reader starts with an empty buffer.
RdName ==
    /\ rd.pc = "name"
    /\ LET r == ReadString(<<>>, rd.net)
       IN  rd' = [rd EXCEPT !.pc = "loop", !.name = TrimSpace(r.line),
                            !.buf = <<>>, !.net = r.net]
    /\ UNCHANGED <<prog, hist>>

\* message, err := reader.ReadString('\n'); if err != nil { return }
RdError ==
    /\ rd.pc = "loop"
    /\ LET r == ReadString(rd.buf, rd.net)
       IN  /\ r.err
           /\ rd' = [rd EXCEPT !.pc = "closed", !.buf = r.buf, !.net = r.net]
    /\ UNCHANGED <<prog, hist>>

\* message = strings.TrimSpace(message); if message == "" { continue }
RdBlank ==
    /\ rd.pc = "loop"
    /\ LET r == ReadString(rd.buf, rd.net)
       IN  /\ ~r.err
           /\ TrimSpace(r.line) = <<>>
           /\ rd' = [rd EXCEPT !.buf = r.buf, !.net = r.net]
    /\ UNCHANGED <<prog, hist>>

\* broadcast(fmt.Sprintf("%s: %s\n", client.name, message), client)
RdChat ==
    /\ rd.pc = "loop"
    /\ LET r == ReadString(rd.buf, rd.net)
       IN  /\ ~r.err
           /\ TrimSpace(r.line) # <<>>
           /\ rd' = [rd EXCEPT !.buf = r.buf, !.net = r.net,
                               !.casts = Append(@, <<rd.name, TrimSpace(r.line)>>)]
    /\ UNCHANGED <<prog, hist>>

NextReader ==
    \/ RdName
    \/ RdError
    \/ RdBlank
    \/ RdChat

ReaderSpec == InitReader /\ [][NextReader]_vars

\* ------------------------------------------------------------- Spec3Live
\* A step of the broadcast handleClient c is executing.
RangeStep(c) ==
    /\ \/ \E k \in Clients : RangeLoad(c, k)
       \/ RangeSend(c)
       \/ RangeEnd(c)
    /\ UNCHANGED idle

\* Spec3 with the Go scheduler running every goroutine that can run. A peer
\* need not send, and a writePump need not progress: its conn.Write may stall
\* for as long as the peer does not read.
Spec3Live == Spec3 /\ \A c \in Clients : WF_vars(RangeStep(c))

\* ------------------------------------------------------------- properties
\* Position i of client r's channel holds a chat line.
IsChat(r, i) == msgChan[r][i].t = "chat"

\* C1: of one broadcast call, every client gets at most one send, and the
\* excluded client gets none; no client's channel holds its own chat line, a
\* chat line its writePump already wrote, or the same chat line twice.
BroadcastAtMostOnce ==
    \A c \in Clients :
        /\ \A k \in Clients : bc[c].att[k] <= 1
        /\ bc[c].excl # Nil => bc[c].att[bc[c].excl] = 0
        /\ \A i \in 1..Len(msgChan[c]) :
              IsChat(c, i) =>
                 /\ msgChan[c][i].a # c
                 /\ msgChan[c][i].b > lastw[c][msgChan[c][i].a]
                 /\ \A j \in 1..Len(msgChan[c]) : j # i => msgChan[c][j] # msgChan[c][i]

\* Client 1's chat broadcast has visited all three clients: 2 and 3 got one
\* send each and 2 holds the line, 1 got none.
BroadcastAtMostOnceWitness ==
    /\ pc[1] = "range"
    /\ bc[1].msg = Chat(1, 1)
    /\ bc[1].done = {1, 2, 3}
    /\ bc[1].att[2] = 1 /\ bc[1].att[3] = 1 /\ bc[1].att[1] = 0
    /\ \E i \in 1..Len(msgChan[2]) : msgChan[2][i] = Chat(1, 1)
    /\ msgChan[1] = <<>>

\* C2: no goroutine has panicked, and no broadcast is about to send on a
\* channel that is closed.
NoSendOnClosed ==
    /\ ~panicked
    /\ \A c \in Clients : bc[c].cur # Nil => chanState[bc[c].cur] # "closed"

\* C3: a broadcast that began returns to the read loop although no writePump
\* is bound to progress; when it returns, every other registered client got
\* one send; and a send to a channel with room appends the message, whatever
\* the other channels hold.
BroadcastNeverBlocks ==
    /\ \A c \in Clients : (pc[c] = "range") ~> (pc[c] = "read")
    /\ [][\A c \in Clients :
            /\ (pc[c] = "range" /\ pc'[c] = "read") =>
                  \A k \in newClients \ {bc[c].excl} : bc[c].att[k] = 1
            /\ (pc[c] = "range" /\ bc[c].cur # Nil /\ bc'[c].cur = Nil
                  /\ Len(msgChan[bc[c].cur]) < Capacity) =>
                  msgChan'[bc[c].cur] = Append(msgChan[bc[c].cur], bc[c].msg)]_vars

\* Client 1's broadcast has visited everybody; the channel of 2 is at
\* capacity without the line, the channel of 3 holds the line.
BroadcastNeverBlocksWitness ==
    /\ pc[1] = "range"
    /\ bc[1].done = {1, 2, 3}
    /\ bc[1].att[2] = 1 /\ bc[1].att[3] = 1
    /\ Len(msgChan[2]) = Capacity
    /\ \A i \in 1..Len(msgChan[2]) : msgChan[2][i] # bc[1].msg
    /\ msgChan[3] # <<>> /\ msgChan[3][Len(msgChan[3])] = bc[1].msg

\* C4: a channel never holds more than Capacity messages; a step leaves a
\* channel at capacity as it is or takes its head off; a sendMessage or a
\* broadcast send to a channel with room appends its message, so sends succeed
\* again once the writePump took a message.
QueueBounded ==
    /\ [](\A c \in Clients : Len(msgChan[c]) <= Capacity)
    /\ [][\A k \in Clients :
            /\ Len(msgChan[k]) = Capacity =>
                  msgChan'[k] \in {msgChan[k], Tail(msgChan[k])}
            /\ (pc[k] = "count" /\ pc'[k] = "store") =>
                  msgChan'[k] = IF Len(msgChan[k]) < Capacity
                                THEN Append(msgChan[k], CountLine(clientCounter))
                                ELSE msgChan[k]
            /\ \A c \in Clients :
                  (pc[c] = "range" /\ bc[c].cur = k /\ bc'[c].cur = Nil
                     /\ chanState[k] = "open") =>
                  msgChan'[k] = IF Len(msgChan[k]) < Capacity
                                THEN Append(msgChan[k], bc[c].msg)
                                ELSE msgChan[k]]_vars

\* Client 2's join broadcast has sent to client 1, whose channel still holds
\* its welcome and count lines and nothing else: the join line was dropped.
QueueBoundedWitness ==
    /\ pc[2] = "range"
    /\ bc[2].msg = Joined(2)
    /\ bc[2].att[1] = 1
    /\ Len(msgChan[1]) = Capacity
    /\ msgChan[1][1] = Welcome(1)
    /\ \A i \in 1..Len(msgChan[1]) : msgChan[1][i] # Joined(2)

\* C5: the chat lines of one sender that a client's writePump writes are
\* written in the order the sender sent them, and the chat lines of one sender
\* in a channel stand in that order, after the ones already written.
FifoPerSender ==
    /\ [](\A r \in Clients : \A i \in 1..Len(msgChan[r]) :
            IsChat(r, i) =>
               /\ msgChan[r][i].b > lastw[r][msgChan[r][i].a]
               /\ \A j \in 1..(i - 1) :
                     (IsChat(r, j) /\ msgChan[r][j].a = msgChan[r][i].a) =>
                        msgChan[r][j].b < msgChan[r][i].b)
    /\ [][\A r \in Clients : \A s \in Clients :
            lastw'[r][s] # lastw[r][s] => lastw'[r][s] > lastw[r][s]]_vars

\* Client 3 was written the last line of sender 1 and the line of sender 2,
\* client 2 the last line of sender 1.
FifoPerSenderWitness ==
    /\ lastw[3][1] = MaxBurst
    /\ lastw[3][2] = 1
    /\ lastw[2][1] = MaxBurst

\* handleClient c is executing the deferred function.
InTeardown(c) ==
    \/ pc[c] \in {"dec", "delete", "close", "left", "leftcount"}
    \/ pc[c] = "range" /\ bc[c].ret \in {"leftcount", "done"}

\* C6: the deferred function of a handleClient whose read loop ended runs
\* once and to its end: its leave broadcast sends to no client twice, no
\* more clients are deleted than were stored, and the process does not die
\* while a deferred function has begun and not finished.
TeardownExactlyOnce ==
    /\ nRem <= nReg
    /\ \A c \in Clients :
          /\ bc[c].msg = Left(c) => \A k \in Clients : bc[c].att[k] <= 1
          /\ panicked => ~InTeardown(c)

\* Handlers that have incremented the counter and not yet stored the client,
\* and handlers that have decremented it and not yet deleted the client.
Joining == {c \in Clients : pc[c] \in {"setup", "count", "store"}}
Leaving == {c \in Clients : pc[c] = "delete"}

\* C7, as the specification states it: the counter is the number of Store
\* calls minus the number of Delete calls, and it is not negative.
CountIsRegMinusRem ==
    /\ clientCounter = nReg - nRem
    /\ clientCounter >= 0

\* C7: the counter is the number of Store calls minus the number of Delete
\* calls, plus the handlers between their increment and their Store, minus
\* the handlers between their decrement and their Delete; it is not negative.
CountTracksHandlers ==
    /\ clientCounter = nReg - nRem + Cardinality(Joining) - Cardinality(Leaving)
    /\ clientCounter >= 0

\* Two clients were stored and one was deleted, no handler is between a
\* counter update and its registry update, and the counter is 1.
CountTracksHandlersWitness ==
    /\ nReg = 2 /\ nRem = 1
    /\ Joining = {} /\ Leaving = {}
    /\ clientCounter = 1

\* The lines handleClient c sent to client r during the join or leave it is
\* executing, oldest first, and whether they all went into the channel.
SentTo(c, r) ==
    LET es == SelectSeq(blog[c], LAMBDA e : e.to = r)
    IN  [i \in 1..Len(es) |-> es[i].msg]
AllQueued(c) == \A i \in 1..Len(blog[c]) : blog[c][i].ok

\* The second broadcast of c's join, or of c's leave, has visited every client.
JoinDone(c) ==
    /\ pc[c] = "range" /\ bc[c].ret = "read" /\ bc[c].msg.t = "count"
    /\ bc[c].cur = Nil /\ newClients \subseteq bc[c].done
LeaveDone(c) ==
    /\ pc[c] = "range" /\ bc[c].ret = "done"
    /\ bc[c].cur = Nil /\ newClients \subseteq bc[c].done

\* What a join sent: to the joiner the welcome line and the count line, to
\* every other client the join line and the count line, the count being the
\* number of registered clients. What a leave sent: to every remaining client
\* the leave line and the count line.
JoinLines(c) ==
    /\ SentTo(c, c) = <<Welcome(c), CountLine(Cardinality(newClients))>>
    /\ \A r \in newClients \ {c} :
          SentTo(c, r) = <<Joined(c), CountLine(Cardinality(newClients))>>
LeaveLines(c) ==
    \A r \in newClients :
        SentTo(c, r) = <<Left(c), CountLine(Cardinality(newClients))>>

\* C8, as the specification states it: when joins, chat messages and leaves
\* do not overlap, every client gets the lines of a join and of a leave.
ScenarioLinesAllReceived ==
    \A c \in Clients :
        /\ JoinDone(c) => JoinLines(c) /\ AllQueued(c)
        /\ LeaveDone(c) => LeaveLines(c) /\ AllQueued(c)

\* C8: when joins, chat messages and leaves do not overlap, the lines of a
\* join and of a leave are sent to every client in the stated order with the
\* stated counts; the joiner's own two lines go into its channel; a line to
\* another client goes into its channel unless that channel is at capacity.
ScenarioLinesSent ==
    /\ [](\A c \in Clients :
            /\ JoinDone(c) => JoinLines(c) /\ blog[c][1].ok /\ blog[c][2].ok
            /\ LeaveDone(c) => LeaveLines(c))
    /\ [][\A c \in Clients :
            (Len(blog'[c]) = Len(blog[c]) + 1 /\ ~blog'[c][Len(blog'[c])].ok) =>
               Len(msgChan[blog'[c][Len(blog'[c])].to]) = Capacity]_vars

\* Client 3 joined as the third client and later left: clients 1 and 2 were
\* sent its leave line and a count of 2.
ScenarioLinesSentWitness ==
    /\ LeaveDone(3)
    /\ newClients = {1, 2}
    /\ SentTo(3, 1) = <<Left(3), CountLine(2)>>
    /\ SentTo(3, 2) = <<Left(3), CountLine(2)>>

\* The complete lines of a byte string, each with its '\n'.
RECURSIVE SplitLines(_)
SplitLines(str) ==
    IF NewlineAt(str) = 0 THEN <<>>
    ELSE <<SubSeq(str, 1, NewlineAt(str))>>
         \o SplitLines(SubSeq(str, NewlineAt(str) + 1, Len(str)))

\* The chat messages a peer's bytes stand for: the first complete line is
\* the name, every later complete line that is not blank is one message.
ChatsOf(str) ==
    LET ls == SplitLines(str)
        ms == SelectSeq(Tail(ls), LAMBDA l : TrimSpace(l) # <<>>)
    IN  IF ls = <<>> THEN <<>>
        ELSE [i \in 1..Len(ms) |-> <<TrimSpace(ls[1]), TrimSpace(ms[i])>>]

\* C9: when the connection has ended, handleClient has broadcast one chat
\* message for every complete non-blank line after the name line, however
\* the peer's bytes were split over the reads.
EveryLineOneBroadcast == rd.pc = "closed" => rd.casts = ChatsOf(rd.all)

\* C10: a connection whose name line could not be read is dropped: its
\* client is not stored, gets no channel and so no welcome or count line,
\* its handler broadcasts nothing, and the counter stays 0 while no other
\* connection has got past its name line.
NameFailureAborts ==
    /\ \A c \in Clients :
          eof[c] => /\ c \notin newClients
                    /\ chanState[c] = "nil"
                    /\ bc[c] = NoRange
    /\ (\A d \in Clients : eof[d] \/ pc[d] \in {"none", "name"}) => clientCounter = 0

\* C11: once a write to client c's connection has failed, its writePump
\* has stopped: it takes no further message from the channel.
WriteFailureStopsWriter ==
    [][\A c \in Clients :
          werr[c] => ~(msgChan[c] # <<>> /\ msgChan'[c] = Tail(msgChan[c]))]_vars

\* The lifecycle stage of connection c: 0 not accepted, 1 Connecting (accepted,
\* client not stored yet), 2 Active (stored, read loop not ended), 3 Closing
\* (deferred function running, or writePump still running after it), 4 Closed
\* (handleClient returned and writePump closed the connection).
Stage(c) ==
    IF pc[c] = "none" THEN 0
    ELSE IF pc[c] \in {"name", "inc", "setup", "count", "store"} THEN 1
    ELSE IF pc[c] = "done" THEN (IF wp[c] = "exit" THEN 4 ELSE 3)
    ELSE IF InTeardown(c) THEN 3
    ELSE 2

ReaderRunning(c) ==
    \/ pc[c] \in {"read", "chat"}
    \/ pc[c] = "range" /\ bc[c].msg.t = "chat"

\* handleClient c is between its Store and its Delete: in the two join
\* broadcasts, in the read loop, or at the first two statements of the
\* deferred function.
BetweenStoreAndDelete(c) ==
    \/ ReaderRunning(c)
    \/ pc[c] \in {"join", "joincount", "dec", "delete"}
    \/ pc[c] = "range" /\ bc[c].ret \in {"joincount", "read"}

\* C13, as the specification states it: a client is in the map exactly
\* while its read loop runs.
RegisteredIffReading == \A c \in Clients : c \in newClients <=> ReaderRunning(c)

\* C13: a client is in the map exactly from its Store to its Delete, which
\* covers the whole run of its read loop, and while it is in the map its
\* channel is open and its writePump runs.
RegisteredWhileReading ==
    \A c \in Clients :
        /\ c \in newClients <=> BetweenStoreAndDelete(c)
        /\ ReaderRunning(c) => c \in newClients
        /\ c \in newClients => chanState[c] = "open" /\ wp[c] = "run"

\* Client 1 is in its read loop and client 2 is in the map with its read
\* loop not begun: client 1 is broadcasting a chat line and has sent it to 2.
RegisteredWhileReadingWitness ==
    /\ pc[1] = "range" /\ bc[1].msg.t = "chat" /\ bc[1].att[2] = 1
    /\ pc[2] = "join"
    /\ newClients = {1, 2}

\* ------------------------------------------------------------- LeaveLive
\* A step handleClient c takes on its own, without input from its peer.
HandlerStep(c) ==
    \/ (BroadcastChat(c) \/ Dec(c) \/ Delete(c) \/ Close(c) \/ BroadcastLeft(c)
          \/ BroadcastLeftCount(c)) /\ UNCHANGED idle
    \/ RangeStep(c)

\* A step of writePump c whose write completes (or does nothing, the writer
\* holding an error).
WriterStep(c) ==
    \/ WriterWriteRec(c)
    \/ WriterExit(c) /\ UNCHANGED idle

\* Three registered clients; peer 1 sends MaxLines chat lines and peer 3 may
\* disconnect and have a write fail. The Go scheduler runs every goroutine
\* that can run, and every write to a connection completes or fails.
InitLive == Active3(<<MaxLines, 0, 0>>, {1, 2})

LeaveLive ==
    /\ InitLive
    /\ [][NextW]_vars
    /\ \A c \in Clients : WF_vars(HandlerStep(c)) /\ WF_vars(WriterStep(c))

\* C14: once handleClient c has left its read loop, eventually c is out of
\* the map, its channel is closed and drained, and its writePump has left
\* its loop and closed the connection.
TeardownCompletes ==
    \A c \in Clients :
        InTeardown(c) ~> (/\ c \notin newClients
                          /\ chanState[c] = "closed" /\ msgChan[c] = <<>>
                          /\ wp[c] = "exit")

\* handleClient c has sent its client's welcome line and count line.
OwnLinesSent(c) == pc[c] \notin {"none", "name", "inc", "setup", "count"}

\* C15: the welcome line and the count line handleClient c sends to its own
\* client both go into the channel; until c is stored the channel holds
\* nothing else; and the first message writePump c receives is the welcome
\* line, the second that count line.
WelcomeAndCountFirst ==
    \A c \in Clients :
        /\ OwnLinesSent(c) =>
              /\ Len(blog[c]) = 2
              /\ blog[c][1].msg = Welcome(c) /\ blog[c][1].ok
              /\ blog[c][2].msg.t = "count" /\ blog[c][2].ok
        /\ pc[c] = "store" =>
              \E i \in 0..2 : msgChan[c] = SubSeq(<<blog[c][1].msg, blog[c][2].msg>>, i + 1, 2)
        /\ Len(took[c]) >= 1 => took[c][1] = Welcome(c)
        /\ Len(took[c]) = 2 => OwnLinesSent(c) /\ took[c][2] = blog[c][2].msg

\* The writePumps of clients 1 and 2 received their welcome and count lines
\* first, and client 1's chat line is the next message in the channel of 2.
WelcomeAndCountFirstWitness ==
    /\ took[2] = <<Welcome(2), CountLine(2)>>
    /\ took[1] = <<Welcome(1), CountLine(1)>>
    /\ msgChan[2] # <<>> /\ msgChan[2][1] = Chat(1, 1)

\* C16: a client in the map has a running writePump, which was started
\* before the client was stored; the connection is closed by the writePump's
\* return alone, which needs the channel closed and drained; and the channel
\* is closed only after the client was deleted from the map.
WriterRunsWhileRegistered ==
    /\ [](\A c \in Clients :
            /\ c \in newClients => wp[c] = "run" /\ chanState[c] = "open"
            /\ wp[c] = "exit" => chanState[c] = "closed"
            /\ chanState[c] = "closed" => c \notin newClients)
    /\ [][\A c \in Clients :
            /\ (c \notin newClients /\ c \in newClients') => wp[c] = "run"
            /\ (wp[c] # "exit" /\ wp'[c] = "exit") =>
                  chanState[c] = "closed" /\ msgChan[c] = <<>> /\ c \notin newClients
            /\ (chanState[c] # "closed" /\ chanState'[c] = "closed") =>
                  c \notin newClients]_vars

\* Client 1's writePump has closed the connection while handleClient 1 has
\* still to make its leave broadcasts; client 2 is in the map, its writePump
\* running.
WriterRunsWhileRegisteredWitness ==
    /\ wp[1] = "exit" /\ pc[1] = "left"
    /\ newClients = {2} /\ wp[2] = "run"

\* C17: when no handler is between its increment and its Store and none is
\* between its decrement and its Delete, the counter is the number of clients
\* in the map; otherwise it is that number plus the handlers of the first
\* kind minus the handlers of the second kind.
CountMatchesRegistry ==
    /\ (Joining = {} /\ Leaving = {}) => clientCounter = Cardinality(newClients)
    /\ clientCounter = Cardinality(newClients) + Cardinality(Joining) - Cardinality(Leaving)

\* Client 1 was deleted and client 2 is in its read loop: no handler is
\* between a counter update and its map update, and counter and map agree on 1.
CountMatchesRegistryWitness ==
    /\ Joining = {} /\ Leaving = {}
    /\ pc[1] = "left" /\ pc[2] = "read"
    /\ newClients = {2}
    /\ clientCounter = 1

\* handleClient c is executing one of the two broadcasts of its join or one
\* of the two broadcasts of its leave.
Announcing(c) == pc[c] = "range" /\ bc[c].msg.t # "chat"

\* C18: the broadcasts of c's join and of c's leave never send to c and
\* never hold c as the client to send to: the join broadcasts exclude c, and
\* the leave broadcasts, which exclude nobody, begin after c was deleted from
\* the map and c's channel was closed.
NoSelfAnnouncement ==
    \A c \in Clients :
        Announcing(c) =>
           /\ bc[c].att[c] = 0
           /\ bc[c].cur # c
           /\ InTeardown(c) =>
                 /\ bc[c].excl = Nil
                 /\ c \notin newClients /\ c \notin bc[c].start /\ c \notin bc[c].done
                 /\ chanState[c] = "closed"
           /\ ~InTeardown(c) => bc[c].excl = c

\* Client 1's leave line was sent to client 2, the only client in the map,
\* and not to client 1, whose channel is closed.
NoSelfAnnouncementWitness ==
    /\ pc[1] = "range" /\ bc[1].msg = Left(1)
    /\ bc[1].done = {2} /\ bc[1].att[2] = 1 /\ bc[1].att[1] = 0
    /\ chanState[1] = "closed"
    /\ ~panicked

\* A byte string of white space only.
IsBlank(str) == \A i \in 1..Len(str) : str[i] \in Space

\* C19: every chat message broadcast carries the client's name and a text
\* that is not blank and neither begins nor ends with white space; and when
\* the read loop reads a blank line, it broadcasts nothing, changes neither
\* the map nor the counter nor any channel, and goes on reading.
BlankLinesNotBroadcast ==
    /\ [](\A i \in 1..Len(rd.casts) :
            /\ rd.casts[i][1] = rd.name
            /\ ~IsBlank(rd.casts[i][2])
            /\ rd.casts[i][2][1] \notin Space
            /\ rd.casts[i][2][Len(rd.casts[i][2])] \notin Space)
    /\ [][(/\ rd.pc = "loop"
           /\ ~ReadString(rd.buf, rd.net).err
           /\ IsBlank(ReadString(rd.buf, rd.net).line)) =>
             /\ rd'.casts = rd.casts
             /\ rd'.pc = "loop"
             /\ rd'.buf = ReadString(rd.buf, rd.net).buf
             /\ UNCHANGED prog]_vars

\* The peer sent its name, a blank line and a chat line, then disconnected:
\* one chat message was broadcast.
BlankLinesNotBroadcastWitness ==
    /\ rd.pc = "closed"
    /\ rd.all = <<"a", "\n", " ", "\n", "a", "\n">>
    /\ rd.casts = << <<(<<"a">>), (<<"a">>)>> >>

====
